---- MODULE Spec2Model ----
(***************************************************************************)
(* billjs/query-string: parse (string -> object) and stringify (object ->  *)
(* string), src/src/index.ts.                                              *)
(*                                                                         *)
(* A JavaScript string is a sequence of characters, each character a       *)
(* one-character TLA+ string (LoneSurrogate stands for one unpaired UTF-16 *)
(* surrogate code unit).  A JavaScript value is a record [t, v]: t is the  *)
(* kind, v a sequence (the characters of a string, the canonical text of a *)
(* number or boolean, the elements of an array, the own enumerable         *)
(* entries <<key, value>> of an object, in Object.keys order).             *)
(***************************************************************************)
EXTENDS Integers, Sequences, FiniteSets, TLC

(***************************************************************************)
(* Characters                                                              *)
(***************************************************************************)
LoneSurrogate == "uD800"

HexDigits ==
  {"0", "1", "2", "3", "4", "5", "6", "7", "8", "9",
   "A", "B", "C", "D", "E", "F", "a", "b", "c", "d", "e", "f"}

\* the value-preserving upper-case form of a hexadecimal digit
HexUpper(h) ==
  CASE h = "a" -> "A" [] h = "b" -> "B" [] h = "c" -> "C"
    [] h = "d" -> "D" [] h = "e" -> "E" [] h = "f" -> "F"
    [] OTHER -> h

\* uriUnescaped of ECMAScript: the characters encodeURIComponent copies
UnreservedChars ==
  {"a", "b", "c", "d", "e", "f", "g", "h", "i", "j", "k", "l", "m", "n", "o",
   "p", "q", "r", "s", "t", "u", "v", "w", "x", "y", "z", "O",
   "0", "1", "2", "3", "4", "5", "6", "7", "8", "9",
   "A", "B", "C", "D", "E", "F",
   "-", "_", ".", "!", "~", "*", "'", "(", ")"}

\* the other ASCII characters of the model, with their code as two
\* upper-case hexadecimal digits
EscapedChars == {" ", "\n", "#", "%", "&", ",", "=", "?", "|"}

CodeOf(c) ==
  CASE c = " "  -> <<"2", "0">>
    [] c = "\n" -> <<"0", "A">>
    [] c = "#"  -> <<"2", "3">>
    [] c = "%"  -> <<"2", "5">>
    [] c = "&"  -> <<"2", "6">>
    [] c = ","  -> <<"2", "C">>
    [] c = "="  -> <<"3", "D">>
    [] c = "?"  -> <<"3", "F">>
    [] c = "|"  -> <<"7", "C">>
    [] c = "a"  -> <<"6", "1">>
    [] c = "b"  -> <<"6", "2">>

\* the characters whose code the model knows
CodedChars == EscapedChars \cup {"a", "b"}

\* line terminators of ECMAScript that the model holds: `.` of a regular
\* expression without the s flag matches none of them
LineTerminators == {"\n"}

(***************************************************************************)
(* Strings                                                                 *)
(***************************************************************************)
\* whether sub occurs in s at index i (1-based)
MatchesAt(s, sub, i) ==
  /\ i >= 1
  /\ i + Len(sub) - 1 <= Len(s)
  /\ \A j \in 1..Len(sub) : s[i + j - 1] = sub[j]

\* String.prototype.indexOf from index i on; 0 when there is none
IndexOfFrom(s, sub, i) ==
  LET hits == {j \in i..Len(s) : MatchesAt(s, sub, j)}
  IN  IF hits = {} THEN 0 ELSE CHOOSE j \in hits : \A k \in hits : j <= k

RECURSIVE SplitFrom(_, _, _)
SplitFrom(s, sep, i) ==
  LET q == IndexOfFrom(s, sep, i)
  IN  IF q = 0
      THEN << SubSeq(s, i, Len(s)) >>
      ELSE << SubSeq(s, i, q - 1) >> \o SplitFrom(s, sep, q + Len(sep))

\* String.prototype.split(sep), sep a string and no limit: an empty sep
\* splits between the characters
Split(s, sep) ==
  IF sep = <<>>
  THEN [i \in 1..Len(s) |-> << s[i] >>]
  ELSE SplitFrom(s, sep, 1)

RECURSIVE JoinFrom(_, _, _)
JoinFrom(parts, sep, i) ==
  IF i > Len(parts) THEN <<>>
  ELSE IF i = Len(parts) THEN parts[i]
  ELSE parts[i] \o sep \o JoinFrom(parts, sep, i + 1)

\* Array.prototype.join(sep) of an array of strings
Join(parts, sep) == JoinFrom(parts, sep, 1)

(***************************************************************************)
(* JavaScript values                                                       *)
(***************************************************************************)
Undefined == [t |-> "undefined", v |-> <<>>]
Null == [t |-> "null", v |-> <<>>]
Str(s) == [t |-> "string", v |-> s]
Arr(elems) == [t |-> "array", v |-> elems]
Obj(entries) == [t |-> "object", v |-> entries]
\* a function object inherited from Object.prototype (valueOf, toString, ...)
BuiltinFunction == [t |-> "function", v |-> <<>>]

\* the typeof operator
TypeOf(x) ==
  CASE x.t \in {"null", "array", "object"} -> "object"
    [] OTHER -> x.t

\* ToBoolean
Truthy(x) ==
  CASE x.t \in {"undefined", "null"} -> FALSE
    [] x.t = "string" -> x.v # <<>>
    [] x.t = "number" -> x.v \notin {<<"0">>, <<"N", "a", "N">>}
    [] x.t = "boolean" -> x.v = <<"t", "r", "u", "e">>
    [] OTHER -> TRUE

RECURSIVE ToStr(_)
\* ToString of ECMAScript, as encodeURIComponent applies it to its argument: an array is
\* its elements' texts joined by ",", null and undefined elements empty
ToStr(x) ==
  CASE x.t = "string" -> x.v
    [] x.t = "undefined" -> <<"u", "n", "d", "e", "f", "i", "n", "e", "d">>
    [] x.t = "null" -> <<"n", "u", "l", "l">>
    [] x.t \in {"number", "boolean"} -> x.v
    [] x.t = "array" ->
         Join([i \in 1..Len(x.v) |->
                 IF x.v[i].t \in {"undefined", "null"} THEN <<>>
                 ELSE ToStr(x.v[i])], <<",">>)

\* Object.keys(x) with the values: the own enumerable string-keyed entries
IndexKey(i) == << CASE i = 1 -> "0" [] i = 2 -> "1" [] i = 3 -> "2" [] i = 4 -> "3" >>

OwnEntries(x) ==
  CASE x.t \in {"object", "function"} -> x.v
    [] x.t = "array" -> [i \in 1..Len(x.v) |-> << IndexKey(i), x.v[i] >>]
    [] x.t = "string" -> [i \in 1..Len(x.v) |-> << IndexKey(i), Str(<< x.v[i] >>) >>]
    [] OTHER -> <<>>

(***************************************************************************)
(* The URI primitives of the host: an outcome is [err, v], err "none" or   *)
(* the name of the error thrown                                            *)
(***************************************************************************)
Ok(s) == [err |-> "none", v |-> s]
Thrown(e) == [err |-> e, v |-> <<>>]

\* the character with the code h1 h2 (two upper-case hexadecimal digits)
CharOfCode(h1, h2) == CHOOSE c \in CodedChars : CodeOf(c) = << h1, h2 >>

RECURSIVE DecodeFrom(_, _)
DecodeFrom(s, i) ==
  IF i > Len(s) THEN Ok(<<>>)
  ELSE IF s[i] # "%"
  THEN LET rest == DecodeFrom(s, i + 1)
       IN  IF rest.err # "none" THEN rest ELSE Ok(<< s[i] >> \o rest.v)
  ELSE IF i + 2 > Len(s) \/ s[i + 1] \notin HexDigits \/ s[i + 2] \notin HexDigits
  THEN Thrown("URIError")
  ELSE LET h1 == HexUpper(s[i + 1])
           h2 == HexUpper(s[i + 2])
       IN  \* an octet 10xxxxxx cannot start a UTF-8 sequence
           IF h1 \in {"8", "9", "A", "B"}
           THEN Thrown("URIError")
           ELSE LET rest == DecodeFrom(s, i + 3)
                IN  IF rest.err # "none" THEN rest
                    ELSE Ok(<< CharOfCode(h1, h2) >> \o rest.v)

\* a decode that returns a malformed string as it is
decodeURIComponentLenient(s) ==
  IF DecodeFrom(s, 1).err # "none" THEN Ok(s) ELSE DecodeFrom(s, 1)

\* decodeURIComponent(s): every %XX becomes the character it encodes; a %
\* that two hexadecimal digits do not follow, or an octet that is no valid
\* UTF-8, throws URIError.  (The model holds no character beyond ASCII, so
\* no input holds a leading octet C0..FF.)
decodeURIComponent(s) == DecodeFrom(s, 1)

RECURSIVE EncodeFrom(_, _)
EncodeFrom(s, i) ==
  IF i > Len(s) THEN Ok(<<>>)
  ELSE IF s[i] = LoneSurrogate THEN Thrown("URIError")
  ELSE LET rest == EncodeFrom(s, i + 1)
           this == IF s[i] \in UnreservedChars THEN << s[i] >>
                   ELSE << "%", CodeOf(s[i])[1], CodeOf(s[i])[2] >>
       IN  IF rest.err # "none" THEN rest ELSE Ok(this \o rest.v)

\* encodeURIComponent(x): the text of x with every character outside
\* uriUnescaped replaced by its %XX octets; an unpaired surrogate throws
\* URIError
encodeURIComponent(x) == EncodeFrom(ToStr(x), 1)

(***************************************************************************)
(* The transform callbacks.  The argument fn is "absent", "notcallable" (a *)
(* truthy value that is no function) or the name of one of the sample      *)
(* callbacks below; parse and stringify treat a callback as opaque.        *)
(***************************************************************************)
Callbacks == {"mark", "undef", "wrap"}

FnArgs == {"absent", "notcallable"} \cup Callbacks

\* what the sample callback f returns for (key, value)
CallbackResult(f, key, value) ==
  CASE f = "mark" -> Str(ToStr(value) \o <<"!">>)
    [] f = "undef" -> IF value = Str(<<"a">>) THEN Undefined ELSE value
    [] f = "wrap" -> Arr(<< value >>)

\* fn(key, value) once fn is resolved: the default returns the value
DefaultFn(fn, key, value) ==
  IF fn \in Callbacks THEN CallbackResult(fn, key, value) ELSE value

\* a fallback for null and undefined only: an empty separator is kept
ResolveSeparatorNullish(x, default) ==
  IF x.t \in {"undefined", "null"} THEN default ELSE x.v

\* if (!sep) sep = '&' and if (!eq) eq = '='
ResolveSeparator(x, default) == IF ~Truthy(x) THEN default ELSE x.v

(***************************************************************************)
(* parse                                                                   *)
(***************************************************************************)
\* const obj: QueryObject = {}: no own property, Object.prototype behind it
EmptyObject == [k \in {} |-> Undefined]

\* some of the property names every {} inherits from Object.prototype
ObjectPrototypeKeys ==
  { <<"v", "a", "l", "u", "e", "O", "f">>,
    <<"t", "o", "S", "t", "r", "i", "n", "g">>,
    <<"c", "o", "n", "s", "t", "r", "u", "c", "t", "o", "r">> }

\* obj[key]: the own property, else the inherited one, else undefined
Get(obj, key) ==
  IF key \in DOMAIN obj THEN obj[key]
  ELSE IF key \in ObjectPrototypeKeys THEN BuiltinFunction
  ELSE Undefined

\* obj[key] = value
Put(obj, key, value) ==
  [k \in (DOMAIN obj) \cup {key} |-> IF k = key THEN value ELSE obj[k]]

\* where the first match of /.*?\?/ starting at index i ends: at the first
\* "?" from i on, when no line terminator lies before it; 0 when none
MatchEnd(s, i) ==
  LET ends == {j \in i..Len(s) :
                 /\ s[j] = "?"
                 /\ \A k \in i..(j - 1) : s[k] \notin LineTerminators}
  IN  IF ends = {} THEN 0 ELSE CHOOSE j \in ends : \A k \in ends : j <= k

\* the first match of /.*?\?/ in s as <<start, end>>; <<0, 0>> when none
FirstMatch(s) ==
  LET starts == {i \in 1..Len(s) : MatchEnd(s, i) # 0}
  IN  IF starts = {} THEN << 0, 0 >>
      ELSE LET i == CHOOSE i \in starts : \A k \in starts : i <= k
           IN  << i, MatchEnd(s, i) >>

\* str.replace(/.*?\?/, '')
StripPrefix(s) ==
  LET m == FirstMatch(s)
  IN  IF m[1] = 0 THEN s
      ELSE SubSeq(s, 1, m[1] - 1) \o SubSeq(s, m[2] + 1, Len(s))

\* a test that keeps a group of three parts or more
IsKeyValueAtLeastTwo(keyValue) == Len(keyValue) >= 2

\* keyValue.length !== 2 is what discards a group
IsKeyValue(keyValue) == Len(keyValue) = 2

\* the insertion of lines 86-92: a key whose obj[key] is not undefined
\* becomes (or stays) an array and the value is pushed
Insert(obj, key, value) ==
  LET cur == Get(obj, key)
  IN  IF cur # Undefined
      THEN LET arr == IF cur.t = "array" THEN cur ELSE Arr(<< cur >>)
           IN  Put(obj, key, Arr(Append(arr.v, value)))
      ELSE Put(obj, key, value)

\* one iteration of the loop over the groups; st is [err, obj, calls]
ParseGroup(st, group, eq, fn) ==
  LET keyValue == Split(group, eq)
  IN  IF ~IsKeyValue(keyValue) THEN st
      ELSE LET key == decodeURIComponent(keyValue[1])
               raw == decodeURIComponent(keyValue[2])
           IN  IF key.err # "none" THEN [st EXCEPT !.err = key.err]
               ELSE IF raw.err # "none" THEN [st EXCEPT !.err = raw.err]
               ELSE LET value == DefaultFn(fn, key.v, Str(raw.v))
                    IN  [err |-> "none",
                         obj |-> Insert(st.obj, key.v, value),
                         calls |-> Append(st.calls,
                                     [key |-> key.v, arg |-> Str(raw.v), ret |-> value])]

RECURSIVE ParseLoop(_, _, _, _, _)
\* for (const group of groups): an error thrown ends the loop
ParseLoop(st, groups, i, eq, fn) ==
  IF i > Len(groups) \/ st.err # "none" THEN st
  ELSE ParseLoop(ParseGroup(st, groups[i], eq, fn), groups, i + 1, eq, fn)

\* parse(str, sep, eq, fn): [err, obj, calls] and, for the record, the text
\* that was split and the groups it was split into
parse(str, sep, eq, fn) ==
  IF ~Truthy(str) \/ TypeOf(str) # "string"
  THEN [err |-> "none", obj |-> EmptyObject, calls |-> <<>>,
        text |-> <<>>, groups |-> <<>>]
  ELSE LET sep1 == ResolveSeparator(sep, <<"&">>)
           eq1 == ResolveSeparator(eq, <<"=">>)
           text == StripPrefix(str.v)
           groups == Split(text, sep1)
           st == ParseLoop([err |-> "none", obj |-> EmptyObject, calls |-> <<>>],
                           groups, 1, eq1, fn)
       IN  [err |-> st.err, obj |-> st.obj, calls |-> st.calls,
            text |-> text, groups |-> groups]

(***************************************************************************)
(* stringify                                                               *)
(***************************************************************************)
\* a test of truthiness alone
isObjectTruthy(obj) == Truthy(obj)

\* obj && (type === 'object' || type === 'function')
isObject(obj) == Truthy(obj) /\ TypeOf(obj) \in {"object", "function"}

RECURSIVE StringifyArray(_, _, _, _, _, _)
\* for (let val of value): one pair per element; st is [err, qs, calls]
StringifyArray(st, key, ekey, elems, eq, fn) ==
  IF elems = <<>> \/ st.err # "none" THEN st
  ELSE LET val == DefaultFn(fn, key, Head(elems))
           enc == encodeURIComponent(val)
           calls == Append(st.calls, [key |-> key, arg |-> Head(elems), ret |-> val])
       IN  IF enc.err # "none"
           THEN [st EXCEPT !.err = enc.err, !.calls = calls]
           ELSE StringifyArray(
                  [err |-> "none", qs |-> Append(st.qs, Join(<< ekey, enc.v >>, eq)),
                   calls |-> calls],
                  key, ekey, Tail(elems), eq, fn)

\* an iteration that does not skip an undefined value
StringifyKeyKeepsUndefined(st, entry, eq, fn) ==
  LET key == entry[1]
      value == entry[2]
      ekey == encodeURIComponent(Str(key))
  IN  IF ekey.err # "none" THEN [st EXCEPT !.err = ekey.err]
      ELSE IF value.t = "array" THEN StringifyArray(st, key, ekey.v, value.v, eq, fn)
      ELSE LET val == DefaultFn(fn, key, value)
               enc == encodeURIComponent(val)
               calls == Append(st.calls, [key |-> key, arg |-> value, ret |-> val])
           IN  IF enc.err # "none"
               THEN [st EXCEPT !.err = enc.err, !.calls = calls]
               ELSE [err |-> "none", qs |-> Append(st.qs, Join(<< ekey.v, enc.v >>, eq)),
                     calls |-> calls]

\* one iteration of the loop over the keys; entry is <<key, obj[key]>>
StringifyKey(st, entry, eq, fn) ==
  LET key == entry[1]
      value == entry[2]
      ekey == encodeURIComponent(Str(key))
  IN  IF ekey.err # "none" THEN [st EXCEPT !.err = ekey.err]
      ELSE IF value = Undefined THEN st
      ELSE IF value.t = "array" THEN StringifyArray(st, key, ekey.v, value.v, eq, fn)
      ELSE LET val == DefaultFn(fn, key, value)
               enc == encodeURIComponent(val)
               calls == Append(st.calls, [key |-> key, arg |-> value, ret |-> val])
           IN  IF enc.err # "none"
               THEN [st EXCEPT !.err = enc.err, !.calls = calls]
               ELSE [err |-> "none", qs |-> Append(st.qs, Join(<< ekey.v, enc.v >>, eq)),
                     calls |-> calls]

RECURSIVE StringifyLoop(_, _, _, _, _)
\* for (const key of keys): an error thrown ends the loop
StringifyLoop(st, entries, i, eq, fn) ==
  IF i > Len(entries) \/ st.err # "none" THEN st
  ELSE StringifyLoop(StringifyKey(st, entries[i], eq, fn), entries, i + 1, eq, fn)

\* stringify(obj, sep, eq, fn): [err, v, calls], v the string returned
stringify(obj, sep, eq, fn) ==
  IF obj.t \in {"null", "undefined"} \/ ~isObject(obj)
  THEN [err |-> "none", v |-> <<>>, calls |-> <<>>]
  ELSE LET sep1 == ResolveSeparator(sep, <<"&">>)
           eq1 == ResolveSeparator(eq, <<"=">>)
           st == StringifyLoop([err |-> "none", qs |-> <<>>, calls |-> <<>>],
                               OwnEntries(obj), 1, eq1, fn)
       IN  [err |-> st.err,
            v |-> IF st.err = "none" THEN Join(st.qs, sep1) ELSE <<>>,
            calls |-> st.calls]

(***************************************************************************)
(* The calls checked.  A state holds one call of the library with its      *)
(* arguments: of parse, of stringify, or ("roundtrip") of stringify and    *)
(* then of parse on the string returned, with the same separators.         *)
(***************************************************************************)
VARIABLES call, str, obj, sep, eq, fn, pc, stringified, parsed

vars == << call, str, obj, sep, eq, fn, pc, stringified, parsed >>

\* the most groups in a source string, the most keys in a mapping
MaxGroups == 3
MaxKeys == 2

SeqsUpTo(S, n) == UNION {[1..k -> S] : k \in 0..n}

ValueOfKey == <<"v", "a", "l", "u", "e", "O", "f">>

\* the separator arguments that fall back to the defaults, and the defaults
DefaultSeparators ==
  { << Undefined, Undefined >>, << Null, Str(<<>>) >>, << Str(<<>>), Null >>,
    << Str(<<"&">>), Str(<<"=">>) >> }

\* custom separators of one and of two characters
CustomSeparators ==
  { << Str(<<"|">>), Str(<<"#">>) >>, << Str(<<"&", "&">>), Str(<<"=", "=">>) >> }

\* the groups of a source string, written with the key-value separator weq
GroupTexts(weq) ==
  { <<"a">> \o weq \o <<"a">>,
    <<"a">> \o weq \o <<"b">>,
    <<"b", "%", "3", "D">> \o weq \o <<"%", "2", "6">>,
    <<"a">>,
    <<"%">> \o weq \o <<"a">> \o weq \o <<"b">>,
    ValueOfKey \o weq \o <<"a">>,
    <<"%">> \o weq \o <<"a">> }

\* what may precede the groups
Prefixes == { <<>>, <<"b", "?">>, <<"b", "?", "?">>, <<"a", "\n", "b", "?">> }

\* the source strings written with the separators wsep and weq
SourceTexts(prefixes, wsep, weq) ==
  { Str(p \o Join(gs, wsep)) :
      p \in prefixes, gs \in SeqsUpTo(GroupTexts(weq), MaxGroups) }

NonStringSources == { Undefined, Null, [t |-> "number", v |-> <<"5">>] }

\* the arguments of the calls of parse: <<str, <<sep, eq>>, fn>>
ParseInputs ==
  (SourceTexts(Prefixes, <<"&">>, <<"=">>) \X {<< Undefined, Undefined >>} \X {"absent"})
  \cup
  (SourceTexts({<<>>}, <<"&">>, <<"=">>) \X DefaultSeparators \X {"absent"})
  \cup
  (SourceTexts({<<>>}, <<"&">>, <<"=">>) \X {<< Undefined, Undefined >>} \X FnArgs)
  \cup
  (SourceTexts({<<>>}, <<"|">>, <<"#">>) \X CustomSeparators \X {"absent"})
  \cup
  (SourceTexts({<<>>}, <<"&", "&">>, <<"=", "=">>)
     \X (CustomSeparators \cup {<< Undefined, Undefined >>}) \X {"absent"})
  \cup
  (NonStringSources \X DefaultSeparators \X {"absent", "mark"})

\* well-formed strings, with characters that encoding escapes
StringSamples ==
  { Str(<<"a">>), Str(<<"b", " ", "?", "%">>), Str(<<>>), Str(<<"=", "&">>) }

ValueSamples ==
  { Str(<<"a">>), Str(<<"b", " ", "?", "%">>), Str(<< LoneSurrogate >>),
    Undefined, [t |-> "boolean", v |-> <<"f", "a", "l", "s", "e">>],
    Arr(<<>>), Arr(<< Str(<<"a">>), Str(<<"b", "=">>) >>) }

\* the objects of at most MaxKeys own properties, keys and values drawn
\* from the two sets
Mappings(keys, values) ==
  { Obj(es) : es \in { e \in SeqsUpTo(keys \X values, MaxKeys) :
                         \A i, j \in 1..Len(e) : i # j => e[i][1] # e[j][1] } }

NonObjectSources ==
  { Undefined, Null, [t |-> "number", v |-> <<"5">>], Str(<<"a", "b">>),
    [t |-> "boolean", v |-> <<"t", "r", "u", "e">>] }

StringifyKeys == { <<"a">>, <<"b", "&">>, << LoneSurrogate >> }

\* the arguments of the calls of stringify: <<obj, <<sep, eq>>, fn>>
StringifyInputs ==
  (Mappings(StringifyKeys, ValueSamples)
     \X (DefaultSeparators \cup CustomSeparators) \X {"absent"})
  \cup
  (Mappings(StringifyKeys, ValueSamples) \X {<< Undefined, Undefined >>} \X FnArgs)
  \cup
  (NonObjectSources \X DefaultSeparators \X {"absent", "mark"})

RoundTripKeys == { <<"a">>, <<"b", "&">>, ValueOfKey }

\* the arguments of the round trips: <<obj, <<sep, eq>>>>
RoundTripInputs ==
  Mappings(RoundTripKeys, StringSamples) \X (DefaultSeparators \cup CustomSeparators)

NoParse == [err |-> "none", obj |-> EmptyObject, calls |-> <<>>,
            text |-> <<>>, groups |-> <<>>]
NoStringify == [err |-> "none", v |-> <<>>, calls |-> <<>>]

Init ==
  /\ pc = "call"
  /\ stringified = NoStringify
  /\ parsed = NoParse
  /\ \/ \E i \in ParseInputs :
          /\ call = "parse"
          /\ str = i[1] /\ sep = i[2][1] /\ eq = i[2][2] /\ fn = i[3]
          /\ obj = Undefined
     \/ \E i \in StringifyInputs :
          /\ call = "stringify"
          /\ obj = i[1] /\ sep = i[2][1] /\ eq = i[2][2] /\ fn = i[3]
          /\ str = Undefined
     \/ \E i \in RoundTripInputs :
          /\ call = "roundtrip"
          /\ obj = i[1] /\ sep = i[2][1] /\ eq = i[2][2] /\ fn = "absent"
          /\ str = Undefined

\* stringify(obj, sep, eq, fn) runs to its return or to the error it throws
Stringify ==
  /\ pc = "call"
  /\ call \in {"stringify", "roundtrip"}
  /\ LET r == stringify(obj, sep, eq, fn)
     IN  /\ stringified' = r
         /\ pc' = IF r.err # "none" THEN "threw"
                  ELSE IF call = "roundtrip" THEN "mid" ELSE "returned"
         /\ str' = IF call = "roundtrip" /\ r.err = "none" THEN Str(r.v) ELSE str
  /\ UNCHANGED << call, obj, sep, eq, fn, parsed >>

\* parse(str, sep, eq, fn) runs to its return or to the error it throws
Parse ==
  /\ \/ pc = "call" /\ call = "parse"
     \/ pc = "mid" /\ call = "roundtrip"
  /\ LET r == parse(str, sep, eq, fn)
     IN  /\ parsed' = r
         /\ pc' = IF r.err # "none" THEN "threw" ELSE "returned"
  /\ UNCHANGED << call, str, obj, sep, eq, fn, stringified >>

Next == Stringify \/ Parse

Spec == Init /\ [][Next]_vars

(***************************************************************************)
(* What the properties speak of                                            *)
(***************************************************************************)
ParseCalled == call = "parse" /\ pc # "call"
StringifyCalled == call = "stringify" /\ pc # "call"
RoundTripEnded == call = "roundtrip" /\ pc \in {"returned", "threw"}

\* a source that parse does not return {} for at once
IsSourceText(x) == x.t = "string" /\ x.v # <<>>

\* the separators in force, by the rule of the specification
SepInForce == IF sep \in {Undefined, Null, Str(<<>>)} THEN <<"&">> ELSE sep.v
EqInForce == IF eq \in {Undefined, Null, Str(<<>>)} THEN <<"=">> ELSE eq.v

\* a group that splits into exactly two parts on the key-value separator
SplitsInTwo(group) == Len(Split(group, EqInForce)) = 2

\* the groups of the call of parse that split in two, in order
KeptGroups == SelectSeq(parsed.groups, SplitsInTwo)

\* s holds a % that does not start an escape decodeURIComponent accepts
InvalidPercent(s) ==
  \E i \in 1..Len(s) :
    /\ s[i] = "%"
    /\ \/ i + 2 > Len(s)
       \/ s[i + 1] \notin HexDigits
       \/ s[i + 2] \notin HexDigits
       \/ HexUpper(s[i + 1]) \in {"8", "9", "A", "B"}

\* the values a property holds: the elements of an array, else the value
ValuesOf(x) == IF x.t = "array" THEN x.v ELSE << x >>

\* the values returned by the callback for the key k, in call order
ReturnsFor(calls, k) ==
  LET mine == SelectSeq(calls, LAMBDA c : c.key = k)
  IN  [i \in 1..Len(mine) |-> mine[i].ret]

\* the keys the callback was called with
CalledKeys(calls) == { calls[i].key : i \in 1..Len(calls) }

\* the own properties of the mapping given to stringify, as a function
AsMapping(x) ==
  [k \in { x.v[i][1] : i \in 1..Len(x.v) } |->
     (CHOOSE e \in { x.v[i] : i \in 1..Len(x.v) } : e[1] = k)[2]]

\* the characters of the separators in force
SeparatorChars ==
  { SepInForce[i] : i \in 1..Len(SepInForce) } \cup { EqInForce[i] : i \in 1..Len(EqInForce) }

HoldsSeparatorChar(s) == \E i \in 1..Len(s) : s[i] \in SeparatorChars

HasLoneSurrogate(s) == \E i \in 1..Len(s) : s[i] = LoneSurrogate

\* the text of key<eq>value as stringify is to write it
PairText(key, value) ==
  encodeURIComponent(Str(key)).v \o EqInForce
    \o encodeURIComponent(DefaultFn(fn, key, value)).v

RECURSIVE PairsOf(_)
\* the pairs the emission rule asks for, for the entries es of a mapping
PairsOf(es) ==
  IF es = <<>> THEN <<>>
  ELSE LET key == Head(es)[1]
           value == Head(es)[2]
           mine == IF value = Undefined THEN <<>>
                   ELSE IF value.t = "array"
                   THEN [i \in 1..Len(value.v) |-> PairText(key, value.v[i])]
                   ELSE << PairText(key, value) >>
       IN  mine \o PairsOf(Tail(es))

RECURSIVE ScalarsOf(_)
\* the scalar occurrences of a mapping as <<key, value>>, in emission order
ScalarsOf(es) ==
  IF es = <<>> THEN <<>>
  ELSE LET key == Head(es)[1]
           value == Head(es)[2]
           mine == IF value = Undefined THEN <<>>
                   ELSE IF value.t = "array"
                   THEN [i \in 1..Len(value.v) |-> << key, value.v[i] >>]
                   ELSE << << key, value >> >>
       IN  mine \o ScalarsOf(Tail(es))

\* the mapping given to stringify is one it iterates over
IsObjectLike(x) == x.t \in {"object", "array", "function"}

(***************************************************************************)
(* The properties                                                          *)
(***************************************************************************)

\* C1: round trip.  For every mapping whose values are all scalar strings
\* and every group and key-value separator of which no key or value holds a
\* character, parse(stringify(m, sep, eq), sep, eq) equals m: the same keys,
\* the same value for each key.
C1_RoundTripAnySeparators ==
  ( /\ RoundTripEnded
    /\ \A i \in 1..Len(obj.v) :
         /\ obj.v[i][2].t = "string"
         /\ ~HoldsSeparatorChar(obj.v[i][1])
         /\ ~HoldsSeparatorChar(obj.v[i][2].v) )
  => /\ pc = "returned"
     /\ parsed.obj = AsMapping(obj)

\* C2: repeated keys in parse, for every key and every callback.  A key
\* seen once maps to its (transformed) value as a scalar; a key seen
\* n >= 2 times maps to the sequence of its n values in encounter order.
C2_RepeatedKeysCollapse ==
  (ParseCalled /\ pc = "returned")
  => \A k \in CalledKeys(parsed.calls) :
       LET values == ReturnsFor(parsed.calls, k)
       IN  /\ k \in DOMAIN parsed.obj
           /\ parsed.obj[k] = IF Len(values) = 1 THEN values[1] ELSE Arr(values)

\* the source string without the groups that do not split in two: what
\* the replace removed, then the groups kept, joined by the separator
WithoutMalformedGroups ==
  LET m == FirstMatch(str.v)
      removed == IF m[1] = 0 THEN <<>> ELSE SubSeq(str.v, m[1], m[2])
  IN  Str(removed \o Join(KeptGroups, SepInForce))

\* C3: malformed groups are dropped.  A group that does not split into
\* exactly two parts on the key-value separator contributes no key, and the
\* outcome of parse is the outcome of parsing the same string with those
\* groups removed.
C3_MalformedGroupsDropped ==
  (ParseCalled /\ IsSourceText(str))
  => LET clean == parse(WithoutMalformedGroups, sep, eq, fn)
     IN  /\ parsed.err = clean.err
         /\ parsed.obj = clean.obj
         /\ parsed.calls = clean.calls
         /\ \A k \in DOMAIN parsed.obj :
              \E i \in 1..Len(KeptGroups) :
                 decodeURIComponent(Split(KeptGroups[i], EqInForce)[1]) = Ok(k)

\* a group was dropped and another one was kept
C3_Witness ==
  /\ ParseCalled /\ pc = "returned"
  /\ KeptGroups # <<>>
  /\ Len(KeptGroups) < Len(parsed.groups)
  /\ DOMAIN parsed.obj # {}

\* C4: URL prefix.  For a source that holds a "?", the text split into
\* groups is exactly what follows the first "?"; for a source without one,
\* it is the whole source.
C4_StripsThroughFirstQuestionMark ==
  (ParseCalled /\ IsSourceText(str))
  => LET q == IndexOfFrom(str.v, <<"?">>, 1)
     IN  parsed.text = IF q = 0 THEN str.v ELSE SubSeq(str.v, q + 1, Len(str.v))

\* C5: percent-encoding symmetry with the default separators.  For every
\* mapping of string keys to scalar string values, whatever characters
\* they hold, parse(stringify(m)) equals m.
C5_RoundTripDefaultSeparators ==
  ( /\ RoundTripEnded
    /\ SepInForce = <<"&">> /\ EqInForce = <<"=">>
    /\ \A i \in 1..Len(obj.v) : obj.v[i][2].t = "string" )
  => /\ pc = "returned"
     /\ \A k \in DOMAIN AsMapping(obj) :
          k \in DOMAIN parsed.obj /\ parsed.obj[k] = AsMapping(obj)[k]
     /\ DOMAIN parsed.obj = DOMAIN AsMapping(obj)

\* C6: emission rule of stringify.  In key order, an undefined value emits
\* no pair, a sequence one pair per element in element order, any other
\* value exactly one pair; the string returned is the pairs joined by the
\* group separator, with no separator before the first or after the last.
C6_EmissionRule ==
  (StringifyCalled /\ pc = "returned" /\ IsObjectLike(obj))
  => stringified.v = Join(PairsOf(OwnEntries(obj)), SepInForce)

\* stringify returned for a mapping with an undefined value and a sequence
C6_Witness ==
  /\ StringifyCalled /\ pc = "returned" /\ obj.t = "object"
  /\ \E i, j \in 1..Len(obj.v) :
       /\ obj.v[i][2] = Undefined
       /\ obj.v[j][2].t = "array" /\ Len(obj.v[j][2].v) = 2
  /\ Len(Split(stringified.v, SepInForce)) = 2

\* the callback is called once per group that splits in two, in group
\* order, with the decoded key and value
ParseCallsExact ==
  (ParseCalled /\ pc = "returned" /\ IsSourceText(str))
  => /\ Len(parsed.calls) = Len(KeptGroups)
     /\ \A i \in 1..Len(KeptGroups) :
          LET kv == Split(KeptGroups[i], EqInForce)
          IN  /\ parsed.calls[i].key = decodeURIComponent(kv[1]).v
              /\ parsed.calls[i].arg = Str(decodeURIComponent(kv[2]).v)

\* the callback is called once per scalar occurrence, in emission order,
\* and what it returns is what is encoded
StringifyCallsExact ==
  (StringifyCalled /\ pc = "returned" /\ IsObjectLike(obj))
  => LET scalars == ScalarsOf(OwnEntries(obj))
     IN  /\ Len(stringified.calls) = Len(scalars)
         /\ \A i \in 1..Len(scalars) :
              /\ stringified.calls[i].key = scalars[i][1]
              /\ stringified.calls[i].arg = scalars[i][2]
         /\ stringified.v =
              Join([i \in 1..Len(scalars) |->
                      encodeURIComponent(Str(scalars[i][1])).v \o EqInForce
                        \o encodeURIComponent(stringified.calls[i].ret).v],
                   SepInForce)

\* the value r returned by the i-th call for a key is in what the mapping
\* holds under the key: it is the value stored, or one of the elements of
\* the sequence stored, or (a sequence returned for the first occurrence)
\* the sequence that the later values were appended to
Landed(r, i, stored) ==
  \/ stored = r
  \/ stored.t = "array" /\ \E j \in 1..Len(stored.v) : stored.v[j] = r
  \/ /\ i = 1 /\ r.t = "array" /\ stored.t = "array"
     /\ Len(r.v) <= Len(stored.v)
     /\ SubSeq(stored.v, 1, Len(r.v)) = r.v

\* C7: the callback is called exactly once per scalar occurrence and what
\* it returns is what lands in the output: in parse once per group that
\* splits in two, in group order, with the decoded key and value, every
\* value returned being in the mapping returned, under its key; in
\* stringify once per value that is not undefined and once per element of a
\* sequence, in emission order, the value returned being the one encoded.
C7_CallbackOncePerOccurrence ==
  /\ ParseCallsExact
  /\ StringifyCallsExact
  /\ (ParseCalled /\ pc = "returned")
     => \A k \in CalledKeys(parsed.calls) :
          /\ k \in DOMAIN parsed.obj
          /\ \A i \in 1..Len(ReturnsFor(parsed.calls, k)) :
               Landed(ReturnsFor(parsed.calls, k)[i], i, parsed.obj[k])

\* percent-encoding raises on a key of the mapping or on a value encoded
EncodingRaises ==
  \/ \E i \in 1..Len(OwnEntries(obj)) : HasLoneSurrogate(OwnEntries(obj)[i][1])
  \/ \E i \in 1..Len(ScalarsOf(OwnEntries(obj))) :
       LET s == ScalarsOf(OwnEntries(obj))[i]
       IN  HasLoneSurrogate(ToStr(DefaultFn(fn, s[1], s[2])))

\* C8, as the specification states it: stringify never raises.
C8_StringifyNeverRaises == StringifyCalled => pc = "returned"

\* C8, amended: stringify returns the empty string for null, undefined and
\* what is not object-like; for a mapping it raises exactly when the
\* percent-encoding of a key, or of the transformed value or element of a
\* key whose value is not undefined, raises, and the error is that URIError;
\* otherwise it returns a string.
C8_RaisesOnlyWhenEncodingRaises ==
  StringifyCalled
  => /\ ~IsObjectLike(obj) => (pc = "returned" /\ stringified.v = <<>>)
     /\ IsObjectLike(obj) => (pc = "threw" <=> EncodingRaises)
     /\ pc = "threw" => stringified.err = "URIError"
     /\ pc \in {"returned", "threw"}

\* stringify raised on a mapping whose keys are well-formed
C8_Witness ==
  /\ StringifyCalled /\ pc = "threw" /\ obj.t = "object"
  /\ \A i \in 1..Len(obj.v) : ~HasLoneSurrogate(obj.v[i][1])

\* C9: parse fails only by a percent-decode failure.  It raises exactly
\* when the key part or the value part of a group that splits in two holds
\* an invalid percent sequence, and the error is the URIError of the decode;
\* an empty, absent or non-string source gives the empty mapping, and every
\* other input gives a mapping.
C9_ParseRaisesOnlyOnDecode ==
  ParseCalled
  => /\ ~IsSourceText(str) => (pc = "returned" /\ parsed.obj = EmptyObject)
     /\ IsSourceText(str) =>
          (pc = "threw" <=>
             \E i \in 1..Len(KeptGroups) :
                \E j \in 1..2 : InvalidPercent(Split(KeptGroups[i], EqInForce)[j]))
     /\ pc = "threw" => parsed.err = "URIError"
     /\ pc \in {"returned", "threw"}

\* parse raised after it had stored a key and dropped a group
C9_Witness ==
  /\ ParseCalled /\ pc = "threw"
  /\ DOMAIN parsed.obj # {}
  /\ Len(KeptGroups) < Len(parsed.groups)

\* C10: separator resolution.  In parse and in stringify an absent, null or
\* empty group separator behaves as "&" and an absent, null or empty
\* key-value separator as "="; any other separator given, of one character
\* or more, is the one used to split and to join.
C10_SeparatorResolution ==
  /\ ParseCalled =>
       /\ ~Truthy(sep) => parsed = parse(str, Str(<<"&">>), eq, fn)
       /\ ~Truthy(eq) => parsed = parse(str, sep, Str(<<"=">>), fn)
       /\ IsSourceText(str) =>
            /\ parsed.groups = Split(parsed.text, SepInForce)
            /\ pc = "returned" => Len(parsed.calls) = Len(KeptGroups)
  /\ StringifyCalled =>
       /\ ~Truthy(sep) => stringified = stringify(obj, Str(<<"&">>), eq, fn)
       /\ ~Truthy(eq) => stringified = stringify(obj, sep, Str(<<"=">>), fn)
       /\ (pc = "returned" /\ IsObjectLike(obj)) =>
            stringified.v = Join(PairsOf(OwnEntries(obj)), SepInForce)

\* parse split a source of several groups, given an empty group separator
\* and a null key-value separator
C10_Witness ==
  /\ ParseCalled /\ pc = "returned"
  /\ sep = Str(<<>>) /\ eq = Null
  /\ Len(parsed.groups) >= 2 /\ DOMAIN parsed.obj # {}

====
